---------------------------- MODULE Spec2Model ----------------------------
(***************************************************************************)
(* Jobly: the Company and Job models (models/company.js, models/job.js),   *)
(* the partial-update helper (helpers/sql.js) and the relational store     *)
(* they issue their statements to.                                         *)
(*                                                                         *)
(* Values.  A JavaScript value that may be undefined, and an SQL value     *)
(* that may be NULL, is a sequence: <<>> is undefined / NULL, <<v>> is the *)
(* value v.  A string that is matched by ILIKE or sorted by ORDER BY is a  *)
(* sequence of one-character strings; other strings (handles, urls,        *)
(* descriptions, column names) are TLA+ strings.  equity is a NUMERIC,     *)
(* held in tenths (<<1>> is 0.1).                                          *)
(***************************************************************************)
EXTENDS Integers, Sequences, FiniteSets, TLC

VARIABLES
    companies,  \* the rows of table companies (a set of rows)
    jobs,       \* the rows of table jobs (a set of rows)
    nextId,     \* the next value of the sequence behind jobs.id
    pc,         \* per request: where the request's async function stands
    last,       \* the step taken last: operation, error thrown, value returned
    call        \* a call of a pure helper or of findAll: arguments and result

vars == <<companies, jobs, nextId, pc, last, call>>

\* ------------------------------------------------------------------ bounds

\* Most keys of one update mapping enumerated for sqlForPartialUpdate.
MaxUpdateKeys == 2
\* Ids the sequence behind jobs.id hands out before job creation is cut off.
MaxJobId == 2
\* numEmployees, minEmployees and maxEmployees range over 0..MaxEmployees.
MaxEmployees == 2
\* salary and minSalary range over 0..MaxSalary.
MaxSalary == 2

\* ------------------------------------------------------------------ values

UNDEF == <<>>
NULL == <<>>
Some(v) == <<v>>
Val(o) == o[1]

RECURSIVE SeqsUpTo(_, _)
\* The sequences over S of length at most n.
SeqsUpTo(S, n) ==
    IF n = 0 THEN {<<>>}
    ELSE LET shorter == SeqsUpTo(S, n - 1)
         IN  shorter \cup {Append(s, x) : s \in shorter, x \in S}

Range(s) == {s[i] : i \in 1..Len(s)}

\* The error classes of expressError the models throw, and a failure of
\* db.query itself (a constraint violation, an unknown column), which no
\* model catches.
BadRequestError == "BadRequestError"
NotFoundError == "NotFoundError"
StoreError == "StoreError"
NoError == "none"

\* ------------------------------------------------- helpers/sql.js

\* JavaScript's truthiness of a looked-up column name: a missing key reads
\* undefined, and undefined and the empty string are falsy.
Truthy(v) == v # UNDEF /\ v # Some("")

\* jsToSql[colName] of a JavaScript object: undefined when the key is absent.
Lookup(obj, key) == IF key \in DOMAIN obj THEN Some(obj[key]) ELSE UNDEF

\* Object.keys(dataToUpdate) and Object.values(dataToUpdate): a mapping is
\* the sequence of its [key, val] entries in insertion order.
ObjectKeys(obj) == [i \in 1..Len(obj) |-> obj[i].key]
ObjectValues(obj) == [i \in 1..Len(obj) |-> obj[i].val]

\* SetFragment numbering its placeholders from 0 (idx in place of idx + 1).
SetFragmentFromZero(colName, idx, jsToSql) ==
    [col |-> IF Truthy(Lookup(jsToSql, colName))
             THEN Val(Lookup(jsToSql, colName)) ELSE colName,
     ph  |-> idx]

\* `"${jsToSql[colName] || colName}"=$${idx + 1}`, idx counted from 0: the
\* fragment as the column it names and the placeholder it uses.
SetFragment(colName, idx, jsToSql) ==
    [col |-> IF Truthy(Lookup(jsToSql, colName))
             THEN Val(Lookup(jsToSql, colName)) ELSE colName,
     ph  |-> idx + 1]

\* sqlForPartialUpdate without its check for an empty mapping.
sqlForPartialUpdateUnchecked(dataToUpdate, jsToSql) ==
    LET keys == ObjectKeys(dataToUpdate)
    IN  [err |-> NoError,
         setCols |-> [i \in 1..Len(keys) |->
                         SetFragment(keys[i], i - 1, jsToSql)],
         values |-> ObjectValues(dataToUpdate)]

\* sqlForPartialUpdate(dataToUpdate, jsToSql).  cols.join(', ') is the
\* sequence of fragments: the store reads the SET list back fragment by
\* fragment.
sqlForPartialUpdate(dataToUpdate, jsToSql) ==
    LET keys == ObjectKeys(dataToUpdate)
    IN  IF Len(keys) = 0
        THEN [err |-> BadRequestError, setCols |-> <<>>, values |-> <<>>]
        ELSE [err |-> NoError,
              setCols |-> [i \in 1..Len(keys) |->
                              SetFragment(keys[i], i - 1, jsToSql)],
              values |-> ObjectValues(dataToUpdate)]

\* The translation maps the two models pass.
CompanyJsToSql == [numEmployees |-> "num_employees", logoUrl |-> "logo_url"]
JobJsToSql == << >>


\* ------------------------------------------------------------- the store

\* The columns of the two tables, as the statements of the models name them.
CompanyColumns == {"handle", "name", "description", "num_employees", "logo_url"}
JobColumns == {"id", "title", "salary", "equity", "company_handle"}

\* The rules a foreign key may be declared with for the deletion of a
\* referenced row.  The declaration is the store's; the models set none.
OnDeleteRules == {"CASCADE", "NO ACTION"}

\* The rules it may be declared with for a change of a referenced handle.
OnUpdateRules == {"CASCADE", "NO ACTION"}

\* An unquoted identifier is folded to lower case by the store; a quoted one
\* is kept as written.  (The only mixed-case aliases of the models are these.)
FoldIdent(name) ==
    CASE name = "companyHandle" -> "companyhandle"
      [] name = "numEmployees"  -> "numemployees"
      [] name = "logoUrl"       -> "logourl"
      [] OTHER                  -> name

Alias(name, quoted) == IF quoted THEN name ELSE FoldIdent(name)

\* What an operation gives back: the error thrown (or none), the value
\* returned, the tables and the sequence as it leaves them, and the number
\* of statements it issued.
Result(err, value, c, j, n, q) ==
    [err |-> err, value |-> value, companies |-> c, jobs |-> j,
     nextId |-> n, queries |-> q]

\* An operation that throws after q statements, none of which wrote.
Throw(err, q) == Result(err, <<>>, companies, jobs, nextId, q)

\* rows[0] of a result: undefined for an empty result.
FirstRow(rows) == IF rows = {} THEN UNDEF ELSE Some(CHOOSE r \in rows : TRUE)

\* The primary key of companies: no second row with a handle in use.
PrimaryKeyFree(handle) == \A r \in companies : r.handle # handle

\* The foreign key of jobs.company_handle: the handle names a company.
ForeignKeyHeld(handle) == \E r \in companies : r.handle = handle

\* A primary key refuses an UPDATE that moves a row of key `key` onto the
\* key of another row of the table.
KeyTaken(table, col, rows, key) ==
    \E n \in rows : n[col] # key /\ \E o \in table : o[col] = n[col]

RECURSIVE ApplySet(_, _, _)
\* SET col = $ph, ...: the row with every fragment's column assigned the
\* parameter its placeholder names.
ApplySet(row, setCols, params) ==
    IF setCols = <<>> THEN row
    ELSE ApplySet([row EXCEPT ![Head(setCols).col] = params[Head(setCols).ph]],
                  Tail(setCols), params)

\* A parameterized statement binds: the placeholders it uses are exactly
\* $1..$n for the n parameters passed with it.
Binds(placeholders, params) == placeholders = 1..Len(params)

\* UPDATE table SET setCols WHERE whereCol = $wherePh RETURNING ...: fails
\* as a statement when the SET list is empty, a fragment names no column of
\* the table or the parameters do not bind; else rewrites the rows the
\* WHERE selects.
DbUpdate(table, columns, setCols, params, whereCol, wherePh) ==
    IF \/ Len(setCols) = 0
       \/ \E i \in 1..Len(setCols) : setCols[i].col \notin columns
       \/ ~Binds({setCols[i].ph : i \in 1..Len(setCols)} \cup {wherePh}, params)
    THEN [err |-> StoreError, table |-> table, rows |-> {}]
    ELSE LET hit == {r \in table : r[whereCol] = params[wherePh]}
             new == {ApplySet(r, setCols, params) : r \in hit}
         IN  [err |-> NoError, table |-> (table \ hit) \cup new, rows |-> new]

\* ------------------------------------------------- models/company.js

\* SELECT / RETURNING handle, name, description,
\*   num_employees AS "numEmployees", logo_url AS "logoUrl"
CompanyProjection(row) ==
    [handle |-> row.handle, name |-> row.name, description |-> row.description,
     numEmployees |-> row.num_employees, logoUrl |-> row.logo_url]

\* The row INSERT INTO companies (...) VALUES ($1..$5) writes.
CompanyRow(data) ==
    [handle |-> data.handle, name |-> data.name,
     description |-> data.description,
     num_employees |-> data.numEmployees, logo_url |-> data.logoUrl]

\* SELECT ... FROM companies WHERE handle = $1
SelectCompany(handle) == {r \in companies : r.handle = handle}

\* CompanyCreateCheck with the duplicate check left out.
CompanyCreateUnchecked(data) ==
    Result(NoError, <<>>, companies, jobs, nextId, 1)

\* Company.create up to its first await's answer: the duplicate check.
CompanyCreateCheck(data) ==
    IF FirstRow(SelectCompany(data.handle)) # UNDEF
    THEN Throw(BadRequestError, 1)
    ELSE Result(NoError, <<>>, companies, jobs, nextId, 1)

\* Company.create from the duplicate check's answer on: the INSERT.
CompanyCreateInsert(data) ==
    IF ~PrimaryKeyFree(data.handle)
    THEN Throw(StoreError, 2)
    ELSE Result(NoError, Some(CompanyProjection(CompanyRow(data))),
                companies \cup {CompanyRow(data)}, jobs, nextId, 2)

\* Company.create(data) run with no other request's statement in between.
CompanyCreate(data) ==
    IF CompanyCreateCheck(data).err # NoError
    THEN CompanyCreateCheck(data)
    ELSE CompanyCreateInsert(data)

\* Company.get(handle)
CompanyGet(handle) ==
    LET company == FirstRow({CompanyProjection(r) : r \in SelectCompany(handle)})
    IN  IF company = UNDEF THEN Throw(NotFoundError, 1)
        ELSE Result(NoError, company, companies, jobs, nextId, 1)

\* Company.update whose statement has lost its WHERE clause: every row is
\* rewritten, and rows[0] is whichever the store lists first.
CompanyUpdateEveryRow(handle, data, onUpdate) ==
    LET built == sqlForPartialUpdate(data, CompanyJsToSql)
        new == {ApplySet(r, built.setCols, built.values) : r \in companies}
        company == FirstRow({CompanyProjection(r) : r \in new})
    IN  IF built.err # NoError THEN Throw(built.err, 0)
        ELSE IF company = UNDEF THEN Throw(NotFoundError, 1)
        ELSE Result(NoError, company, new, jobs, nextId, 1)

\* The statement Company.update builds, with the parameters it passes:
\* UPDATE companies SET ${setCols} WHERE handle = ${handleVarIdx}, and
\* [...values, handle].
CompanyUpdateStatement(handle, data) ==
    LET built == sqlForPartialUpdate(data, CompanyJsToSql)
        handleVarIdx == Len(built.values) + 1
    IN  [err |-> built.err, setCols |-> built.setCols,
         wherePh |-> handleVarIdx, params |-> Append(built.values, handle)]

\* Company.update(handle, data), under the rule the jobs' foreign key is
\* declared with for a change of the handle it references.
CompanyUpdate(handle, data, onUpdate) ==
    LET built == CompanyUpdateStatement(handle, data)
        res == DbUpdate(companies, CompanyColumns, built.setCols,
                        built.params, "handle", built.wherePh)
        company == FirstRow({CompanyProjection(r) : r \in res.rows})
        moved == \E n \in res.rows : n.handle # handle
        referring == {j \in jobs : j.company_handle = handle}
    IN  IF built.err # NoError THEN Throw(built.err, 0)
        ELSE IF res.err # NoError THEN Throw(res.err, 1)
        ELSE IF KeyTaken(companies, "handle", res.rows, handle)
             THEN Throw(StoreError, 1)
        ELSE IF moved /\ referring # {} /\ onUpdate = "NO ACTION"
             THEN Throw(StoreError, 1)
        ELSE IF company = UNDEF THEN Throw(NotFoundError, 1)
        ELSE Result(NoError, company, res.table,
                    IF moved
                    THEN (jobs \ referring) \cup
                         {[j EXCEPT !.company_handle = Val(company).handle] :
                             j \in referring}
                    ELSE jobs,
                    nextId, 1)

\* Company.remove(handle): DELETE FROM companies WHERE handle = $1
\* RETURNING handle, under the rule the jobs' foreign key is declared with.
CompanyRemove(handle, onDelete) ==
    LET hit == SelectCompany(handle)
        referring == {j \in jobs : j.company_handle = handle}
    IN  IF hit = {} THEN Throw(NotFoundError, 1)
        ELSE IF referring # {} /\ onDelete = "NO ACTION" THEN Throw(StoreError, 1)
        ELSE Result(NoError, <<>>, companies \ hit, jobs \ referring, nextId, 1)

\* --------------------------------------------- the store's SELECT ... WHERE

\* The store's lower-casing of a character, for ILIKE.
LowerChar(c) ==
    CASE c = "B" -> "b"
      [] c = "C" -> "c"
      [] c = "J" -> "j"
      [] OTHER   -> c

Lower(str) == [i \in 1..Len(str) |-> LowerChar(str[i])]

\* The place of a character in the collation ORDER BY sorts by (code points).
CharRank(c) ==
    CASE c = "%" -> 37 [] c = "1" -> 49 [] c = "2" -> 50 [] c = "B" -> 66
      [] c = "C" -> 67 [] c = "J" -> 74 [] c = "_" -> 95 [] c = "b" -> 98
      [] c = "c" -> 99 [] c = "g" -> 103 [] c = "i" -> 105 [] c = "j" -> 106

RECURSIVE StrLeq(_, _)
\* a sorts at or before b.
StrLeq(a, b) ==
    IF a = <<>> THEN TRUE
    ELSE IF b = <<>> THEN FALSE
    ELSE IF Head(a) = Head(b) THEN StrLeq(Tail(a), Tail(b))
    ELSE CharRank(Head(a)) < CharRank(Head(b))

RECURSIVE Like(_, _)
\* str LIKE pattern: % matches any run of characters, _ any one character,
\* every other character itself.
Like(str, pattern) ==
    IF pattern = <<>> THEN str = <<>>
    ELSE IF Head(pattern) = "%"
         THEN \/ Like(str, Tail(pattern))
              \/ str # <<>> /\ Like(Tail(str), pattern)
    ELSE /\ str # <<>>
         /\ Head(pattern) = "_" \/ Head(pattern) = Head(str)
         /\ Like(Tail(str), Tail(pattern))

\* The operand of a predicate: the parameter of its placeholder, or the
\* literal written in the statement.
Operand(arg, values) == IF "ph" \in DOMAIN arg THEN values[arg.ph] ELSE arg.lit

\* Whether a row satisfies a predicate of the WHERE clause.  A comparison
\* with NULL is not true.
Satisfies(row, pred, values) ==
    CASE pred.op = ">="    -> /\ row[pred.col] # NULL
                              /\ Val(row[pred.col]) >= Operand(pred.arg, values)
      [] pred.op = "<="    -> /\ row[pred.col] # NULL
                              /\ Val(row[pred.col]) <= Operand(pred.arg, values)
      [] pred.op = ">"     -> /\ row[pred.col] # NULL
                              /\ Val(row[pred.col]) > Operand(pred.arg, values)
      [] pred.op = "ILIKE" -> Like(Lower(row[pred.col]),
                                   Lower(Operand(pred.arg, values)))

\* The orders a result may come in under ORDER BY col: sorted by col, rows
\* that tie in whatever order the store lists them.
Ordered(rows, col) ==
    {out \in [1..Cardinality(rows) -> rows] :
        /\ \A i, j \in DOMAIN out : i # j => out[i] # out[j]
        /\ \A i, j \in DOMAIN out : i < j => StrLeq(out[i][col], out[j][col])}

\* SELECT ... FROM table [WHERE p1 AND p2 ...] ORDER BY col, with its
\* parameters.  whereClause is undefined for a statement without WHERE.
\* Fails when WHERE is followed by no predicate or the parameters do not
\* bind; else gives the results the store may answer with.
DbSelect(table, whereClause, queryValues, col) ==
    LET whereQuery == IF whereClause = UNDEF THEN <<>> ELSE Val(whereClause)
        placeholders ==
            {whereQuery[i].arg.ph :
                i \in {k \in 1..Len(whereQuery) : "ph" \in DOMAIN whereQuery[k].arg}}
    IN  IF \/ whereClause # UNDEF /\ whereQuery = <<>>
           \/ ~Binds(placeholders, queryValues)
        THEN [err |-> StoreError, results |-> {}]
        ELSE [err |-> NoError,
              results |-> Ordered({r \in table :
                                      \A i \in 1..Len(whereQuery) :
                                          Satisfies(r, whereQuery[i], queryValues)},
                                  col)]

\* Push that numbers the placeholder before the value is pushed.
PushBeforeCount(q, value, col, op) ==
    [queryValues |-> Append(q.queryValues, value),
     whereQuery |-> Append(q.whereQuery,
                           [col |-> col, op |-> op,
                            arg |-> [ph |-> Len(q.queryValues)]])]

\* queryValues.push(value); whereQuery.push(`col op $${queryValues.length}`)
Push(q, value, col, op) ==
    LET queryValues == Append(q.queryValues, value)
    IN  [queryValues |-> queryValues,
         whereQuery |-> Append(q.whereQuery,
                               [col |-> col, op |-> op,
                                arg |-> [ph |-> Len(queryValues)]])]

\* whereQuery.push(`col op lit`): a predicate with no parameter.
PushLiteral(q, col, op, lit) ==
    [queryValues |-> q.queryValues,
     whereQuery |-> Append(q.whereQuery,
                           [col |-> col, op |-> op, arg |-> [lit |-> lit]])]

EmptyQuery == [queryValues |-> <<>>, whereQuery |-> <<>>]

\* `%${name}%`
Wildcarded(str) == <<"%">> \o str \o <<"%">>

\* a >= b of JavaScript, in place of a > b.
JsGreaterOrEqual(a, b) == a # UNDEF /\ b # UNDEF /\ Val(a) >= Val(b)

\* a > b of JavaScript on numbers that may be undefined: false when either is.
JsGreater(a, b) == a # UNDEF /\ b # UNDEF /\ Val(a) > Val(b)

\* What findAll gives back: the error thrown (or none), the results the
\* store may answer with, and the number of statements issued.
FindResult(err, results, q) == [err |-> err, results |-> results, queries |-> q]

\* ----------------------------------------------------- models/job.js

\* The row INSERT INTO jobs (title, salary, equity, company_handle)
\* VALUES ($1..$4) writes, its id drawn from the sequence.
JobRow(id, data) ==
    [id |-> id, title |-> data.title, salary |-> data.salary,
     equity |-> data.equity, company_handle |-> data.companyHandle]

\* SELECT ... FROM jobs WHERE id=$1
SelectJob(id) == {r \in jobs : r.id = id}

\* RETURNING / SELECT id, title, salary, equity, company_handle AS <alias>:
\* the record under the name the store gives the aliased column.
JobProjection(row, quoted) ==
    LET alias == Alias("companyHandle", quoted)
    IN  [k \in {"id", "title", "salary", "equity", alias} |->
            CASE k = "id"     -> row.id
              [] k = "title"  -> row.title
              [] k = "salary" -> row.salary
              [] k = "equity" -> row.equity
              [] OTHER        -> row.company_handle]

\* Job.create(data): the alias of its RETURNING is written without quotes.
\* The sequence moves on whether or not the foreign key and the primary
\* key let the row in.
JobCreate(data) ==
    IF ~ForeignKeyHeld(data.companyHandle) \/ SelectJob(nextId) # {}
    THEN Result(StoreError, <<>>, companies, jobs, nextId + 1, 1)
    ELSE Result(NoError, Some(JobProjection(JobRow(nextId, data), FALSE)),
                companies, jobs \cup {JobRow(nextId, data)}, nextId + 1, 1)

\* Job.get up to its first await's answer: the job, or NotFoundError.
JobGetJob(id) ==
    LET job == FirstRow({JobProjection(r, TRUE) : r \in SelectJob(id)})
    IN  IF job = UNDEF THEN Throw(NotFoundError, 1)
        ELSE Result(NoError, job, companies, jobs, nextId, 1)

\* JobGetCompany that throws when the company's SELECT finds no row.
JobGetCompanyOrThrow(job) ==
    LET handle == job.companyHandle
        company == FirstRow({CompanyProjection(r) : r \in SelectCompany(handle)})
    IN  IF company = UNDEF THEN Throw(NotFoundError, 2)
        ELSE Result(NoError, Some([job EXCEPT !.companyHandle = company]),
                    companies, jobs, nextId, 2)

\* Job.get from the job on: companyRes.rows[0] replaces job.companyHandle.
JobGetCompany(job) ==
    LET handle == job.companyHandle
        company == FirstRow({CompanyProjection(r) : r \in SelectCompany(handle)})
    IN  Result(NoError, Some([job EXCEPT !.companyHandle = company]),
               companies, jobs, nextId, 2)

\* Job.update that writes the row back under an id of its own.
JobUpdateRenumbering(id, data) ==
    LET built == sqlForPartialUpdate(data, JobJsToSql)
        res == DbUpdate(jobs, JobColumns, built.setCols,
                        Append(built.values, id), "id", Len(built.values) + 1)
        new == {[r EXCEPT !.id = nextId] : r \in res.rows}
        job == FirstRow({JobProjection(r, TRUE) : r \in new})
    IN  IF built.err # NoError THEN Throw(built.err, 0)
        ELSE IF res.err # NoError THEN Throw(res.err, 1)
        ELSE IF job = UNDEF THEN Throw(NotFoundError, 1)
        ELSE Result(NoError, job, companies, (res.table \ res.rows) \cup new,
                    nextId + 1, 1)

\* The statement Job.update builds, with the parameters it passes:
\* UPDATE jobs SET ${setCols} WHERE id=${idIdx}, and [...values, id].
JobUpdateStatement(id, data) ==
    LET built == sqlForPartialUpdate(data, JobJsToSql)
        idIdx == Len(built.values) + 1
    IN  [err |-> built.err, setCols |-> built.setCols,
         wherePh |-> idIdx, params |-> Append(built.values, id)]

\* Job.update(id, data)
JobUpdate(id, data) ==
    LET built == JobUpdateStatement(id, data)
        res == DbUpdate(jobs, JobColumns, built.setCols,
                        built.params, "id", built.wherePh)
        job == FirstRow({JobProjection(r, TRUE) : r \in res.rows})
    IN  IF built.err # NoError THEN Throw(built.err, 0)
        ELSE IF res.err # NoError THEN Throw(res.err, 1)
        ELSE IF \/ KeyTaken(jobs, "id", res.rows, id)
                \/ \E n \in res.rows : ~ForeignKeyHeld(n.company_handle)
             THEN Throw(StoreError, 1)
        ELSE IF job = UNDEF THEN Throw(NotFoundError, 1)
        ELSE Result(NoError, job, companies, res.table, nextId, 1)

\* Job.remove without its check of the deleted row.
JobRemoveSilent(id) ==
    Result(NoError, <<>>, companies, jobs \ SelectJob(id), nextId, 1)

\* Job.remove(id): DELETE FROM jobs WHERE id = $1 RETURNING id
JobRemove(id) ==
    LET hit == SelectJob(id)
    IN  IF hit = {} THEN Throw(NotFoundError, 1)
        ELSE Result(NoError, <<>>, companies, jobs \ hit, nextId, 1)

\* ------------------------------------------------- findAll of the models

\* The statement a findAll sends: WHERE and its predicates when there is
\* one (whereQuery.length > 0), none otherwise.
WhereClause(q) == IF Len(q.whereQuery) > 0 THEN Some(q.whereQuery) ELSE UNDEF

\* The predicates and parameters Company.findAll builds from its parameters.
CompanyFindAllQuery(parameters) ==
    LET name == parameters.name
        minEmployees == parameters.minEmployees
        maxEmployees == parameters.maxEmployees
        q1 == IF minEmployees # UNDEF
              THEN Push(EmptyQuery, Val(minEmployees), "num_employees", ">=")
              ELSE EmptyQuery
        q2 == IF maxEmployees # UNDEF
              THEN Push(q1, Val(maxEmployees), "num_employees", "<=")
              ELSE q1
    IN  IF name # UNDEF /\ Val(name) # <<>>
        THEN Push(q2, Wildcarded(Val(name)), "name", "ILIKE")
        ELSE q2

\* Company.findAll(parameters)
CompanyFindAll(parameters) ==
    LET q == CompanyFindAllQuery(parameters)
        res == DbSelect(companies, WhereClause(q), q.queryValues, "name")
    IN  IF JsGreater(parameters.minEmployees, parameters.maxEmployees)
        THEN FindResult(BadRequestError, {}, 0)
        ELSE IF res.err # NoError THEN FindResult(res.err, {}, 1)
        ELSE FindResult(NoError,
                        {[i \in DOMAIN out |-> CompanyProjection(out[i])] :
                            out \in res.results}, 1)

\* FROM jobs AS j JOIN companies AS c ON j.company_handle = c.handle
JobsJoinCompanies ==
    UNION {{[id |-> j.id, title |-> j.title, salary |-> j.salary,
             equity |-> j.equity, company_handle |-> j.company_handle,
             name |-> c.name] :
               c \in {x \in companies : x.handle = j.company_handle}} :
           j \in jobs}

\* SELECT j.id, j.title, j.salary, j.equity,
\*   j.company_handle AS "companyHandle", c.name
JobListProjection(row) ==
    [id |-> row.id, title |-> row.title, salary |-> row.salary,
     equity |-> row.equity, companyHandle |-> row.company_handle,
     name |-> row.name]

\* The predicates and parameters Job.findAll builds from its parameters.
JobFindAllQuery(parameters) ==
    LET title == parameters.title
        minSalary == parameters.minSalary
        hasEquity == parameters.hasEquity
        q1 == IF hasEquity = Some(TRUE)
              THEN PushLiteral(EmptyQuery, "equity", ">", 0)
              ELSE EmptyQuery
        q2 == IF title # UNDEF
              THEN Push(q1, Wildcarded(Val(title)), "title", "ILIKE")
              ELSE q1
    IN  IF minSalary # UNDEF
        THEN Push(q2, Val(minSalary), "salary", ">=")
        ELSE q2

\* Job.findAll(parameters)
JobFindAll(parameters) ==
    LET q == JobFindAllQuery(parameters)
        res == DbSelect(JobsJoinCompanies, WhereClause(q), q.queryValues, "title")
    IN  IF res.err # NoError THEN FindResult(res.err, {}, 1)
        ELSE FindResult(NoError,
                        {[i \in DOMAIN out |-> JobListProjection(out[i])] :
                            out \in res.results}, 1)

\* ------------------------------------------------------ the inputs

\* One request at a time is in flight in Spec.
Requests == {"r1"}

Handles == {"c1", "c2"}
CompanyNames == {<<"C", "1">>, <<"B", "i", "g">>}
Descriptions == {"Desc1"}
NumEmployees == {NULL, Some(1)}
LogoUrls == {Some("http://c1.img")}
Titles == {<<"J", "1">>, <<"j", "2">>}
Salaries == {Some(1)}
Equities == {NULL}

\* data of Company.create: { handle, name, description, numEmployees, logoUrl }
CompanyData ==
    [handle : Handles, name : CompanyNames, description : Descriptions,
     numEmployees : NumEmployees, logoUrl : LogoUrls]

\* data of Job.create: { title, salary, equity, companyHandle }
JobData ==
    [title : Titles, salary : Salaries, equity : Equities,
     companyHandle : Handles]

\* The ids a caller may name: those the sequence can hand out, and one more.
JobIds == 1..(MaxJobId + 1)

\* The values a key of an update mapping may carry.
CompanyFieldValues(key) ==
    CASE key = "name"         -> CompanyNames
      [] key = "description"  -> Descriptions
      [] key = "numEmployees" -> NumEmployees
      [] key = "logoUrl"      -> LogoUrls

JobFieldValues(key) ==
    CASE key = "title"  -> Titles
      [] key = "salary" -> Salaries
      [] key = "equity" -> Equities

\* The keys of data of Company.update ("Data can include: {name, description,
\* numEmployees, logoUrl}") and of Job.update (title, salary, equity).
CompanyUpdateKeys == {"name", "description", "numEmployees", "logoUrl"}
JobUpdateKeys == {"title", "salary", "equity"}

Entries(keys, Values(_)) ==
    UNION {{[key |-> k, val |-> v] : v \in Values(k)} : k \in keys}

\* The mappings of at most n entries with keys among `keys`, no key twice.
Mappings(keys, Values(_), n) ==
    {m \in SeqsUpTo(Entries(keys, Values), n) :
        \A i, j \in 1..Len(m) : i # j => m[i].key # m[j].key}

\* Whether mapping m lists its keys in the order of sequence `order`.
InOrder(m, order) ==
    \A i, j \in 1..Len(m) :
        i < j => \E a, b \in 1..Len(order) :
                     a < b /\ order[a] = m[i].key /\ order[b] = m[j].key

\* The update mappings the requests send: every choice of at most
\* MaxUpdateKeys keys and of their values, the keys in one order (what the
\* order of keys does is sqlForPartialUpdate's, enumerated in SpecSql).
CompanyUpdates ==
    {m \in Mappings(CompanyUpdateKeys, CompanyFieldValues, MaxUpdateKeys) :
        InOrder(m, <<"numEmployees", "name", "logoUrl", "description">>)}
JobUpdates ==
    {m \in Mappings(JobUpdateKeys, JobFieldValues, MaxUpdateKeys) :
        InOrder(m, <<"salary", "title", "equity">>)}

\* The keys a caller of the models may put in an update mapping beyond the
\* documented ones: the identifier columns, and the name the jobs' foreign
\* key has in the records returned.
CompanyAnyKeys == CompanyUpdateKeys \cup {"handle"}
JobAnyKeys == JobUpdateKeys \cup {"id", "company_handle", "companyHandle"}

CompanyAnyValues(key) ==
    IF key = "handle" THEN Handles ELSE CompanyFieldValues(key)
JobAnyValues(key) ==
    CASE key = "id"                                  -> 1..(MaxJobId + 1)
      [] key \in {"company_handle", "companyHandle"} -> Handles
      [] OTHER                                       -> JobFieldValues(key)

CompanyAnyUpdates ==
    {m \in Mappings(CompanyAnyKeys, CompanyAnyValues, MaxUpdateKeys) :
        InOrder(m, <<"handle", "numEmployees", "name", "logoUrl", "description">>)}
JobAnyUpdates ==
    {m \in Mappings(JobAnyKeys, JobAnyValues, MaxUpdateKeys) :
        InOrder(m, <<"id", "company_handle", "companyHandle", "salary",
                     "title", "equity">>)}

\* ------------------------------------------------ the requests' steps

IdlePc == [at |-> "idle"]
NoStep == [op |-> "none", err |-> NoError, value |-> <<>>]
NoCall == [fn |-> "none"]

Init ==
    /\ companies = {}
    /\ jobs = {}
    /\ nextId = 1
    /\ pc = [p \in Requests |-> IdlePc]
    /\ last = NoStep
    /\ call = NoCall

\* The store as result r leaves it, and the record of the step.
Leaves(r, op, handle, id) ==
    /\ companies' = r.companies
    /\ jobs' = r.jobs
    /\ nextId' = r.nextId
    /\ last' = [op |-> op, err |-> r.err, value |-> r.value]

\* Company.create runs to the answer of its duplicate check: it throws, or
\* it awaits the INSERT.
CompanyCreateStart(p, data) ==
    /\ pc[p] = IdlePc
    /\ LET r == CompanyCreateCheck(data)
       IN  IF r.err # NoError
           THEN /\ Leaves(r, "Company.create", data.handle, 0)
                /\ pc' = pc
           ELSE /\ Leaves(r, "Company.create:check", data.handle, 0)
                /\ pc' = [pc EXCEPT ![p] = [at |-> "Company.create", data |-> data]]
    /\ UNCHANGED call

\* Company.create resumes with the INSERT and returns.
CompanyCreateFinish(p) ==
    /\ pc[p].at = "Company.create"
    /\ Leaves(CompanyCreateInsert(pc[p].data), "Company.create",
              pc[p].data.handle, 0)
    /\ pc' = [pc EXCEPT ![p] = IdlePc]
    /\ UNCHANGED call

CompanyGetCall(p, handle) ==
    /\ pc[p] = IdlePc
    /\ Leaves(CompanyGet(handle), "Company.get", handle, 0)
    /\ UNCHANGED <<pc, call>>

CompanyUpdateCall(p, handle, data, onUpdate) ==
    /\ pc[p] = IdlePc
    /\ Leaves(CompanyUpdate(handle, data, onUpdate), "Company.update", handle, 0)
    /\ UNCHANGED <<pc, call>>

CompanyRemoveCall(p, handle, onDelete) ==
    /\ pc[p] = IdlePc
    /\ Leaves(CompanyRemove(handle, onDelete), "Company.remove", handle, 0)
    /\ UNCHANGED <<pc, call>>

\* The model stops creating jobs once the sequence has handed out MaxJobId ids.
JobCreateCall(p, data) ==
    /\ pc[p] = IdlePc
    /\ nextId <= MaxJobId
    /\ Leaves(JobCreate(data), "Job.create", data.companyHandle, nextId)
    /\ UNCHANGED <<pc, call>>

\* Job.get runs to the answer of its first SELECT: it throws, or it awaits
\* the company's SELECT holding the job it read.
JobGetStart(p, id) ==
    /\ pc[p] = IdlePc
    /\ LET r == JobGetJob(id)
       IN  IF r.err # NoError
           THEN /\ Leaves(r, "Job.get", "", id)
                /\ pc' = pc
           ELSE /\ Leaves(r, "Job.get:job", "", id)
                /\ pc' = [pc EXCEPT ![p] = [at |-> "Job.get", job |-> Val(r.value)]]
    /\ UNCHANGED call

\* Job.get resumes with the company's SELECT and returns.
JobGetFinish(p) ==
    /\ pc[p].at = "Job.get"
    /\ Leaves(JobGetCompany(pc[p].job), "Job.get", "", pc[p].job.id)
    /\ pc' = [pc EXCEPT ![p] = IdlePc]
    /\ UNCHANGED call

JobUpdateCall(p, id, data) ==
    /\ pc[p] = IdlePc
    /\ Leaves(JobUpdate(id, data), "Job.update", "", id)
    /\ UNCHANGED <<pc, call>>

JobRemoveCall(p, id) ==
    /\ pc[p] = IdlePc
    /\ Leaves(JobRemove(id), "Job.remove", "", id)
    /\ UNCHANGED <<pc, call>>

Next ==
    \E p \in Requests :
        \/ \E data \in CompanyData : CompanyCreateStart(p, data)
        \/ CompanyCreateFinish(p)
        \/ \E handle \in Handles : CompanyGetCall(p, handle)
        \/ \E handle \in Handles, data \in CompanyUpdates,
                 onUpdate \in OnUpdateRules :
               CompanyUpdateCall(p, handle, data, onUpdate)
        \/ \E handle \in Handles, onDelete \in OnDeleteRules :
               CompanyRemoveCall(p, handle, onDelete)
        \/ \E data \in JobData : JobCreateCall(p, data)
        \/ \E id \in JobIds : JobGetStart(p, id)
        \/ JobGetFinish(p)
        \/ \E id \in JobIds, data \in JobUpdates : JobUpdateCall(p, id, data)
        \/ \E id \in JobIds : JobRemoveCall(p, id)

Spec == Init /\ [][Next]_vars

\* --------------------------------------------- two requests at once

\* Two requests served by one process: each runs its model method up to an
\* await, and the other may run between an await and its answer.  The
\* methods are those with two statements, and those that add and delete
\* the rows they read.
Clients == {"r1", "r2"}

InitRace ==
    /\ companies = {}
    /\ jobs = {}
    /\ nextId = 1
    /\ pc = [p \in Clients |-> IdlePc]
    /\ last = NoStep
    /\ call = NoCall

NextRace ==
    \E p \in Clients :
        \/ \E data \in CompanyData : CompanyCreateStart(p, data)
        \/ CompanyCreateFinish(p)
        \/ \E handle \in Handles, onDelete \in OnDeleteRules :
               CompanyRemoveCall(p, handle, onDelete)
        \/ \E data \in JobData : JobCreateCall(p, data)
        \/ \E id \in JobIds : JobGetStart(p, id)
        \/ JobGetFinish(p)

SpecRace == InitRace /\ [][NextRace]_vars

\* ------------------------------------- updates with any keys

\* The models called directly, with update mappings of any keys: rows are
\* created and then updated.
NextAnyKeys ==
    \E p \in Requests :
        \/ \E data \in CompanyData : CompanyCreateStart(p, data)
        \/ CompanyCreateFinish(p)
        \/ \E data \in JobData : JobCreateCall(p, data)
        \/ \E handle \in Handles, data \in CompanyAnyUpdates,
                 onUpdate \in OnUpdateRules :
               CompanyUpdateCall(p, handle, data, onUpdate)
        \/ \E id \in JobIds, data \in JobAnyUpdates : JobUpdateCall(p, id, data)

SpecAnyKeys == Init /\ [][NextAnyKeys]_vars

\* ------------------------------------- sqlForPartialUpdate on its own

\* The keys, values and translation maps sqlForPartialUpdate is called with
\* in SpecSql: keys with and without a translation, and maps that translate
\* a key to a column name, to the empty string, or not at all.
SqlKeys == {"firstName", "age", "numEmployees"}
SqlValues(key) == {"Aliya", "32"}
SqlColumns == {"first_name", "num_employees", ""}
SqlUpdates == Mappings(SqlKeys, SqlValues, MaxUpdateKeys)
SqlMaps == UNION {[D -> SqlColumns] : D \in SUBSET {"firstName", "numEmployees"}}

InitSql ==
    /\ companies = {}
    /\ jobs = {}
    /\ nextId = 1
    /\ pc = [p \in Requests |-> IdlePc]
    /\ last = NoStep
    /\ call \in [fn : {"sqlForPartialUpdate"}, dataToUpdate : SqlUpdates,
                 jsToSql : SqlMaps, returned : {FALSE}, out : {<<>>}]

\* The call returns (or throws): out is what sqlForPartialUpdate gives.
SqlForPartialUpdateReturn ==
    /\ call.fn = "sqlForPartialUpdate"
    /\ ~call.returned
    /\ call' = [call EXCEPT !.returned = TRUE,
                            !.out = sqlForPartialUpdate(call.dataToUpdate,
                                                        call.jsToSql)]
    /\ UNCHANGED <<companies, jobs, nextId, pc, last>>

NextSql == SqlForPartialUpdateReturn

SpecSql == InitSql /\ [][NextSql]_vars

\* ------------------------------------------------- findAll on its own

\* The stores and parameters findAll is called with in SpecCompanyFind and
\* SpecJobFind: names and titles that differ in case, numbers on both sides
\* of every bound, NULLs, and search strings with and without the
\* characters LIKE reads as wildcards.
FindNames == {<<"C", "1">>, <<"B", "i", "g">>, <<"c", "_">>}
FindTitles == {<<"J", "1">>, <<"j", "2">>}
OptEmployees == {UNDEF} \cup {Some(n) : n \in 0..MaxEmployees}
OptSalaries == {UNDEF} \cup {Some(n) : n \in 0..MaxSalary}
OptEquities == {NULL, Some(0), Some(1)}
NameSearches ==
    {UNDEF, Some(<<>>), Some(<<"c", "1">>), Some(<<"i", "g">>),
     Some(<<"_">>), Some(<<"%">>)}
TitleSearches ==
    {UNDEF, Some(<<>>), Some(<<"j">>), Some(<<"1">>), Some(<<"_">>)}

\* The tables with at most one row per key in `keys`, the rows of key k
\* drawn from Rows(k).
Tables(keys, Rows(_)) ==
    LET Slots == UNION {{{}} \cup {{r} : r \in Rows(k)} : k \in keys}
    IN  {UNION {f[k] : k \in keys} :
            f \in {g \in [keys -> Slots] : \A k \in keys : g[k] \subseteq Rows(k)}}

FindCompanyRows(handle) ==
    [handle : {handle}, name : FindNames, description : {"Desc1"},
     num_employees : OptEmployees, logo_url : {NULL}]

\* The job of id i is company c1's when i is odd and c2's when it is even.
FindJobRows(id) ==
    [id : {id}, title : FindTitles, salary : OptSalaries,
     equity : OptEquities,
     company_handle : {IF id % 2 = 1 THEN "c1" ELSE "c2"}]

FindCompanies ==
    {[handle |-> "c1", name |-> <<"C", "1">>, description |-> "Desc1",
      num_employees |-> Some(1), logo_url |-> NULL],
     [handle |-> "c2", name |-> <<"B", "i", "g">>, description |-> "Desc1",
      num_employees |-> Some(2), logo_url |-> NULL]}

CompanyFilters ==
    [name : NameSearches, minEmployees : OptEmployees,
     maxEmployees : OptEmployees]

JobFilters ==
    [title : TitleSearches, minSalary : OptSalaries,
     hasEquity : {UNDEF, Some(TRUE), Some(FALSE)}]

FindCall(fn, parameters) ==
    [fn |-> fn, parameters |-> parameters, returned |-> FALSE,
     err |-> NoError, out |-> <<>>, queries |-> 0]

InitCompanyFind ==
    /\ companies \in Tables(Handles, FindCompanyRows)
    /\ jobs = {}
    /\ nextId = 1
    /\ pc = [p \in Requests |-> IdlePc]
    /\ last = NoStep
    /\ call \in {FindCall("Company.findAll", f) : f \in CompanyFilters}

\* Company.findAll returns (or throws): out is the rows in one of the orders
\* ORDER BY name allows, queries the number of statements sent.
CompanyFindAllReturn ==
    /\ call.fn = "Company.findAll"
    /\ ~call.returned
    /\ LET r == CompanyFindAll(call.parameters)
       IN  IF r.err # NoError
           THEN call' = [call EXCEPT !.returned = TRUE, !.err = r.err,
                                     !.queries = r.queries]
           ELSE \E out \in r.results :
                    call' = [call EXCEPT !.returned = TRUE, !.out = out,
                                         !.queries = r.queries]
    /\ UNCHANGED <<companies, jobs, nextId, pc, last>>

NextCompanyFind == CompanyFindAllReturn

SpecCompanyFind == InitCompanyFind /\ [][NextCompanyFind]_vars

InitJobFind ==
    /\ companies = FindCompanies
    /\ jobs \in Tables(1..MaxJobId, FindJobRows)
    /\ nextId = MaxJobId + 1
    /\ pc = [p \in Requests |-> IdlePc]
    /\ last = NoStep
    /\ call \in {FindCall("Job.findAll", f) : f \in JobFilters}

\* Job.findAll returns (or throws): out is the rows in one of the orders
\* ORDER BY title allows.
JobFindAllReturn ==
    /\ call.fn = "Job.findAll"
    /\ ~call.returned
    /\ LET r == JobFindAll(call.parameters)
       IN  IF r.err # NoError
           THEN call' = [call EXCEPT !.returned = TRUE, !.err = r.err,
                                     !.queries = r.queries]
           ELSE \E out \in r.results :
                    call' = [call EXCEPT !.returned = TRUE, !.out = out,
                                         !.queries = r.queries]
    /\ UNCHANGED <<companies, jobs, nextId, pc, last>>

NextJobFind == JobFindAllReturn

SpecJobFind == InitJobFind /\ [][NextJobFind]_vars

\* ------------------------------------- the statements on their own

\* A call of one of the four methods that build their statement from their
\* arguments, up to the statement: out is undefined when the method throws
\* before it has one.
StatementCall(fn, args) ==
    [fn |-> fn, args |-> args, returned |-> FALSE, out |-> UNDEF]

CompanyOrderedUpdates ==
    Mappings(CompanyUpdateKeys, CompanyFieldValues, MaxUpdateKeys)
JobOrderedUpdates == Mappings(JobUpdateKeys, JobFieldValues, MaxUpdateKeys)

InitStatements ==
    /\ companies = {}
    /\ jobs = {}
    /\ nextId = 1
    /\ pc = [p \in Requests |-> IdlePc]
    /\ last = NoStep
    /\ \/ call \in {StatementCall("Company.findAll", f) : f \in CompanyFilters}
       \/ call \in {StatementCall("Job.findAll", f) : f \in JobFilters}
       \/ call \in {StatementCall("Company.update", [id |-> h, data |-> m]) :
                       h \in Handles, m \in CompanyOrderedUpdates}
       \/ call \in {StatementCall("Job.update", [id |-> i, data |-> m]) :
                       i \in JobIds, m \in JobOrderedUpdates}

Built(out) ==
    /\ ~call.returned
    /\ call' = [call EXCEPT !.returned = TRUE, !.out = out]
    /\ UNCHANGED <<companies, jobs, nextId, pc, last>>

CompanyFindAllBuild ==
    /\ call.fn = "Company.findAll"
    /\ Built(IF JsGreater(call.args.minEmployees, call.args.maxEmployees)
             THEN UNDEF
             ELSE Some(CompanyFindAllQuery(call.args)))

JobFindAllBuild ==
    /\ call.fn = "Job.findAll"
    /\ Built(Some(JobFindAllQuery(call.args)))

CompanyUpdateBuild ==
    /\ call.fn = "Company.update"
    /\ LET st == CompanyUpdateStatement(call.args.id, call.args.data)
       IN  Built(IF st.err # NoError THEN UNDEF ELSE Some(st))

JobUpdateBuild ==
    /\ call.fn = "Job.update"
    /\ LET st == JobUpdateStatement(call.args.id, call.args.data)
       IN  Built(IF st.err # NoError THEN UNDEF ELSE Some(st))

NextStatements ==
    \/ CompanyFindAllBuild
    \/ JobFindAllBuild
    \/ CompanyUpdateBuild
    \/ JobUpdateBuild

SpecStatements == InitStatements /\ [][NextStatements]_vars

\* ------------------------------------------------------------ claims

\* The call of SpecSql has returned from a non-empty update mapping.
SqlReturned ==
    /\ call.fn = "sqlForPartialUpdate"
    /\ call.returned
    /\ Len(call.dataToUpdate) > 0

\* C1, as amended: for every non-empty update mapping U and translation map
\* M, sqlForPartialUpdate(U, M) returns exactly |U| assignments in the order
\* of U's keys; the i-th names column M[k_i] if k_i is in M with a non-empty
\* column name and k_i itself otherwise, and uses placeholder $i; values are
\* U's values in that order.
C1_Assignments ==
    SqlReturned =>
        LET U == call.dataToUpdate
            M == call.jsToSql
            out == call.out
        IN  /\ out.err = NoError
            /\ Len(out.setCols) = Len(U)
            /\ Len(out.values) = Len(U)
            /\ \A i \in 1..Len(U) :
                  /\ out.setCols[i].ph = i
                  /\ out.setCols[i].col =
                        IF U[i].key \in DOMAIN M /\ M[U[i].key] # ""
                        THEN M[U[i].key] ELSE U[i].key
                  /\ out.values[i] = U[i].val

\* C1's case: two keys, the first translated by M, the second not in M.
C1_Witness ==
    /\ SqlReturned
    /\ Len(call.dataToUpdate) = 2
    /\ call.dataToUpdate[1].key \in DOMAIN call.jsToSql
    /\ call.jsToSql[call.dataToUpdate[1].key] = "first_name"
    /\ call.dataToUpdate[2].key \notin DOMAIN call.jsToSql
    /\ call.out.setCols[1].col = "first_name"
    /\ call.out.setCols[2].ph = 2

\* C1 as stated: the i-th assignment names M[k_i] whenever k_i is in M.
C1_AsStated ==
    SqlReturned =>
        LET U == call.dataToUpdate
            M == call.jsToSql
            out == call.out
        IN  /\ out.err = NoError
            /\ Len(out.setCols) = Len(U)
            /\ Len(out.values) = Len(U)
            /\ \A i \in 1..Len(U) :
                  /\ out.setCols[i].ph = i
                  /\ out.setCols[i].col =
                        IF U[i].key \in DOMAIN M THEN M[U[i].key] ELSE U[i].key
                  /\ out.values[i] = U[i].val

\* The store is as result r leaves it.
Untouched(r) ==
    /\ r.companies = companies
    /\ r.jobs = jobs
    /\ r.nextId = nextId

HasKey(data, key) == \E i \in 1..Len(data) : data[i].key = key
Given(data, key) == data[CHOOSE i \in 1..Len(data) : data[i].key = key].val

\* C4 as stated: Company.get of an existing company returns the company's
\* fields as stored, and with them a jobs list holding exactly the jobs that
\* reference the company.
C4_GetWithJobs ==
    /\ \A handle \in Handles, row \in companies :
          row.handle = handle =>
              /\ CompanyGet(handle).err = NoError
              /\ \A f \in {"handle", "name", "description",
                           "numEmployees", "logoUrl"} :
                    Val(CompanyGet(handle).value)[f] = CompanyProjection(row)[f]
    /\ (last.op = "Company.get" /\ last.err = NoError) =>
          LET company == Val(last.value)
          IN  /\ "jobs" \in DOMAIN company
              /\ Range(company.jobs) =
                    {JobProjection(j, TRUE) :
                        j \in {x \in jobs : x.company_handle = company.handle}}

\* C5, as amended: Company.create with a handle in use throws
\* BadRequestError (the class thrown for invalid input too), writes nothing,
\* and no two rows of companies ever share a handle.
C5_DuplicateRejected ==
    /\ \A r1, r2 \in companies : r1.handle = r2.handle => r1 = r2
    /\ \A data \in CompanyData :
          (\E row \in companies : row.handle = data.handle) =>
              /\ CompanyCreate(data).err = BadRequestError
              /\ Untouched(CompanyCreate(data))

\* C5's case: a create was refused as a duplicate with both handles in use.
C5_Witness ==
    /\ last.op = "Company.create"
    /\ last.err = BadRequestError
    /\ Cardinality(companies) = 2

\* C5 as stated: the error is of a kind of its own, ConflictError.
C5_AsStated ==
    /\ \A r1, r2 \in companies : r1.handle = r2.handle => r1 = r2
    /\ \A data \in CompanyData :
          (\E row \in companies : row.handle = data.handle) =>
              /\ CompanyCreate(data).err = "ConflictError"
              /\ Untouched(CompanyCreate(data))

\* The record a row of companies / jobs is read back as, with every key of
\* data at data's value and every other field as in `before`.
Updated(before, data) ==
    [f \in DOMAIN before |->
        IF HasKey(data, f) THEN Given(data, f) ELSE before[f]]

\* C6: a successful Company.update or Job.update changes exactly the fields
\* of the mapping, to the mapping's values, in the one row addressed, leaves
\* every other row of both tables as it was, and returns the row as it is
\* after the update.
C6_PartialUpdate ==
    /\ \A handle \in Handles, data \in CompanyUpdates,
          onUpdate \in OnUpdateRules :
          LET r == CompanyUpdate(handle, data, onUpdate)
          IN  r.err = NoError =>
                \E old \in companies, new \in r.companies :
                    /\ old.handle = handle
                    /\ CompanyProjection(new) =
                          Updated(CompanyProjection(old), data)
                    /\ r.companies \ {new} = companies \ {old}
                    /\ r.jobs = jobs
                    /\ r.nextId = nextId
                    /\ r.value = Some(CompanyProjection(new))
    /\ \A id \in JobIds, data \in JobUpdates :
          LET r == JobUpdate(id, data)
          IN  r.err = NoError =>
                \E old \in jobs, new \in r.jobs :
                    /\ old.id = id
                    /\ JobProjection(new, TRUE) =
                          Updated(JobProjection(old, TRUE), data)
                    /\ r.jobs \ {new} = jobs \ {old}
                    /\ r.companies = companies
                    /\ r.nextId = nextId
                    /\ r.value = Some(JobProjection(new, TRUE))

\* C6's case: an update has succeeded with two rows in each table.
C6_Witness ==
    /\ last.op \in {"Company.update", "Job.update"}
    /\ last.err = NoError
    /\ Cardinality(companies) = 2
    /\ Cardinality(jobs) = 2

\* get, update with non-empty data and remove of an identifier that matches
\* no row throw NotFoundError and write nothing.
NotFoundWhenAbsent ==
    /\ \A handle \in Handles :
          (\A row \in companies : row.handle # handle) =>
              /\ CompanyGet(handle).err = NotFoundError
              /\ Untouched(CompanyGet(handle))
              /\ \A data \in CompanyUpdates \ {<<>>}, onUpdate \in OnUpdateRules :
                    /\ CompanyUpdate(handle, data, onUpdate).err = NotFoundError
                    /\ Untouched(CompanyUpdate(handle, data, onUpdate))
              /\ \A onDelete \in OnDeleteRules :
                    /\ CompanyRemove(handle, onDelete).err = NotFoundError
                    /\ Untouched(CompanyRemove(handle, onDelete))
    /\ \A id \in JobIds :
          (\A row \in jobs : row.id # id) =>
              /\ JobGetJob(id).err = NotFoundError
              /\ Untouched(JobGetJob(id))
              /\ \A data \in JobUpdates \ {<<>>} :
                    /\ JobUpdate(id, data).err = NotFoundError
                    /\ Untouched(JobUpdate(id, data))
              /\ JobRemove(id).err = NotFoundError
              /\ Untouched(JobRemove(id))

\* A remove that succeeds leaves no row with the identifier it was given.
RemovedIsAbsent ==
    /\ \A handle \in Handles, onDelete \in OnDeleteRules :
          CompanyRemove(handle, onDelete).err = NoError =>
              \A row \in CompanyRemove(handle, onDelete).companies :
                  row.handle # handle
    /\ \A id \in JobIds :
          JobRemove(id).err = NoError =>
              \A row \in JobRemove(id).jobs : row.id # id

\* C7: get, update (non-empty data) and remove of an identifier that
\* matches no row throw NotFoundError and leave the store as it was; a
\* successful remove leaves the store without a row of that identifier, so
\* that a get, update or remove of it that follows throws NotFoundError.
C7_NotFound == NotFoundWhenAbsent /\ RemovedIsAbsent

\* C7's case: a remove met no row while the other table row exists and an
\* id has been handed out.
C7_Witness ==
    /\ last.op \in {"Company.remove", "Job.remove"}
    /\ last.err = NotFoundError
    /\ companies # {}
    /\ nextId > 1

\* C8: sqlForPartialUpdate throws BadRequestError for the empty mapping
\* under every translation map, so Company.update and Job.update with empty
\* data throw it before any statement is issued, whether or not the
\* identifier matches a row.
C8_EmptyUpdate ==
    /\ \A M \in SqlMaps \cup {CompanyJsToSql, JobJsToSql} :
          sqlForPartialUpdate(<<>>, M).err = BadRequestError
    /\ \A handle \in Handles, onUpdate \in OnUpdateRules :
          /\ CompanyUpdate(handle, <<>>, onUpdate).err = BadRequestError
          /\ CompanyUpdate(handle, <<>>, onUpdate).queries = 0
          /\ Untouched(CompanyUpdate(handle, <<>>, onUpdate))
    /\ \A id \in JobIds :
          /\ JobUpdate(id, <<>>).err = BadRequestError
          /\ JobUpdate(id, <<>>).queries = 0
          /\ Untouched(JobUpdate(id, <<>>))

\* C8's case: an update was refused for its empty data while one handle has
\* a row and the other has none, and likewise one id.
C8_Witness ==
    /\ last.op \in {"Company.update", "Job.update"}
    /\ last.err = BadRequestError
    /\ Cardinality(companies) = 1
    /\ Cardinality(jobs) = 1

\* C10 as stated: Job.create for an existing company adds exactly one row,
\* with a new id, and returns { id, title, salary, equity, companyHandle }
\* with the supplied values and the row's id.
C10_CreateReturnsJob ==
    /\ \A data \in JobData :
          ForeignKeyHeld(data.companyHandle) =>
              LET r == JobCreate(data)
              IN  /\ r.err = NoError
                  /\ r.companies = companies
                  /\ \E new \in r.jobs :
                        /\ new \notin jobs
                        /\ r.jobs = jobs \cup {new}
                        /\ \A old \in jobs : old.id # new.id
                        /\ new = JobRow(new.id, data)
                        /\ Val(r.value).id = new.id
                        /\ Val(r.value).title = data.title
                        /\ Val(r.value).salary = data.salary
                        /\ Val(r.value).equity = data.equity
    /\ (last.op = "Job.create" /\ last.err = NoError) =>
          LET job == Val(last.value)
          IN  /\ DOMAIN job = {"id", "title", "salary", "equity", "companyHandle"}
              /\ \E new \in jobs :
                    new.id = job.id /\ job.companyHandle = new.company_handle

\* str contains sub as a substring.
Contains(str, sub) ==
    \E i \in 0..(Len(str) - Len(sub)) : SubSeq(str, i + 1, i + Len(sub)) = sub

\* out lists exactly the rows of `want`, each once, ascending by `col`.
ListsExactly(out, want, col) ==
    /\ Range(out) = want
    /\ Len(out) = Cardinality(want)
    /\ \A i, j \in DOMAIN out : i < j => StrLeq(out[i][col], out[j][col])

CompanyFindReturned == call.fn = "Company.findAll" /\ call.returned

\* minEmployees and maxEmployees are both present and min > max.
MinExceedsMax(f) ==
    /\ f.minEmployees # UNDEF
    /\ f.maxEmployees # UNDEF
    /\ Val(f.minEmployees) > Val(f.maxEmployees)

\* The companies that satisfy all present predicates of filter f.
CompaniesMatching(f) ==
    {c \in companies :
        /\ f.minEmployees # UNDEF =>
              c.num_employees # NULL /\ Val(c.num_employees) >= Val(f.minEmployees)
        /\ f.maxEmployees # UNDEF =>
              c.num_employees # NULL /\ Val(c.num_employees) <= Val(f.maxEmployees)
        /\ f.name # UNDEF => Contains(Lower(c.name), Lower(Val(f.name)))}

\* C2: for every store content and every filter that passes the min/max
\* check, Company.findAll(filter) returns exactly the companies that satisfy
\* all present predicates together (numEmployees >= minEmployees,
\* numEmployees <= maxEmployees, name contains the given string
\* case-insensitively), ordered by name ascending; with no predicate present
\* it returns every company.
C2_FindCompanies ==
    (CompanyFindReturned /\ ~MinExceedsMax(call.parameters)) =>
        /\ call.err = NoError
        /\ ListsExactly(call.out,
                        {CompanyProjection(c) :
                            c \in CompaniesMatching(call.parameters)},
                        "name")

JobFindReturned == call.fn = "Job.findAll" /\ call.returned

\* The jobs that satisfy all present predicates of filter f.
JobsMatching(f) ==
    {j \in jobs :
        /\ f.hasEquity = Some(TRUE) => j.equity # NULL /\ Val(j.equity) > 0
        /\ f.title # UNDEF => Contains(Lower(j.title), Lower(Val(f.title)))
        /\ f.minSalary # UNDEF =>
              j.salary # NULL /\ Val(j.salary) >= Val(f.minSalary)}

\* The job as Job.findAll lists it, with its company's name.
Listed(j) ==
    LET c == CHOOSE c \in companies : c.handle = j.company_handle
    IN  [id |-> j.id, title |-> j.title, salary |-> j.salary,
         equity |-> j.equity, companyHandle |-> j.company_handle,
         name |-> c.name]

\* C3: for every store content and filter, Job.findAll(filter) returns
\* exactly the jobs that satisfy all present predicates together, ordered by
\* title ascending, each with its company's name: hasEquity === true keeps
\* only jobs with equity strictly greater than zero, hasEquity false or
\* absent adds no equity predicate, title keeps case-insensitive substring
\* matches, and minSalary keeps jobs with salary >= minSalary.
C3_FindJobs ==
    JobFindReturned =>
        /\ call.err = NoError
        /\ ListsExactly(call.out,
                        {Listed(j) : j \in JobsMatching(call.parameters)},
                        "title")

\* C9: Company.findAll fails with a validation error exactly when
\* minEmployees and maxEmployees are both present and minEmployees >
\* maxEmployees, and in that case no statement is issued to the store;
\* equal bounds, a single bound, or no bound never produce this error.
C9_MinMaxCheck ==
    CompanyFindReturned =>
        /\ call.err = BadRequestError <=> MinExceedsMax(call.parameters)
        /\ call.err = BadRequestError => call.queries = 0 /\ call.out = <<>>
        /\ call.err # BadRequestError => call.queries = 1

\* C9's case: min above max over a store with companies, rejected.
C9_Witness ==
    /\ CompanyFindReturned
    /\ call.parameters.minEmployees = Some(2)
    /\ call.parameters.maxEmployees = Some(1)
    /\ companies # {}
    /\ call.err = BadRequestError
    /\ call.queries = 0


\* C11 as stated: however two Company.create calls of one handle
\* interleave, the store holds one company of the handle and the call that
\* does not create it fails with the duplicate-handle error of the model,
\* BadRequestError, never with an error of the store.
C11_CreateRace ==
    /\ \A r1, r2 \in companies : r1.handle = r2.handle => r1 = r2
    /\ (last.op = "Company.create" /\ last.err # NoError) =>
          last.err = BadRequestError

\* The company a handle names, as a SELECT of it answers: rows[0].
CompanyNamed(handle) ==
    FirstRow({CompanyProjection(r) : r \in SelectCompany(handle)})

CompanyHandles(c) == {r.handle : r \in c}
JobIdentifiers(j) == {<<r.id, r.company_handle>> : r \in j}

Keys(data) == {data[i].key : i \in 1..Len(data)}

\* C13, as amended: a Company.update or Job.update whose mapping holds only
\* updatable keys (name, description, numEmployees, logoUrl; title, salary,
\* equity) leaves every company's handle and every job's id and
\* companyHandle as they are, whatever came before.
C13_IdentifiersKept ==
    /\ \A handle \in Handles, data \in CompanyAnyUpdates,
          onUpdate \in OnUpdateRules :
          Keys(data) \subseteq CompanyUpdateKeys =>
              LET r == CompanyUpdate(handle, data, onUpdate)
              IN  /\ CompanyHandles(r.companies) = CompanyHandles(companies)
                  /\ Cardinality(r.companies) = Cardinality(companies)
                  /\ r.jobs = jobs
    /\ \A id \in JobIds, data \in JobAnyUpdates :
          Keys(data) \subseteq JobUpdateKeys =>
              LET r == JobUpdate(id, data)
              IN  /\ JobIdentifiers(r.jobs) = JobIdentifiers(jobs)
                  /\ Cardinality(r.jobs) = Cardinality(jobs)
                  /\ r.companies = companies

\* C13's case: an update has succeeded with two rows in each table, the
\* jobs holding the ids they were created with.
C13_Witness ==
    /\ last.op \in {"Company.update", "Job.update"}
    /\ last.err = NoError
    /\ Cardinality(companies) = 2
    /\ {r.id : r \in jobs} = 1..2

\* C13 as stated: no Company.update or Job.update, whatever its mapping,
\* changes a company's handle or a job's id or companyHandle.
C13_AsStated ==
    [][last'.op \in {"Company.update", "Job.update"} =>
          /\ CompanyHandles(companies') = CompanyHandles(companies)
          /\ JobIdentifiers(jobs') = JobIdentifiers(jobs)]_vars

\* The call of SpecStatements has built its statement.
StatementBuilt(fn) == call.fn = fn /\ call.returned /\ call.out # UNDEF

\* The predicates of a WHERE clause that take a parameter.
Parameterized(whereQuery) ==
    {i \in 1..Len(whereQuery) : "ph" \in DOMAIN whereQuery[i].arg}

\* The place of a predicate in the order the claim gives: for companies
\* minEmployees, maxEmployees, name; for jobs equity, title, minSalary.
PredicateRank(pred) ==
    CASE pred.col = "num_employees" /\ pred.op = ">=" -> 1
      [] pred.col = "num_employees" /\ pred.op = "<=" -> 2
      [] pred.col = "name"                            -> 3
      [] pred.col = "equity"                          -> 1
      [] pred.col = "title"                           -> 2
      [] pred.col = "salary"                          -> 3

\* Whether `value` is the value filter f means for predicate pred.
MeantFor(pred, f, value) ==
    CASE pred.col = "num_employees" /\ pred.op = ">=" ->
            value = Val(f.minEmployees)
      [] pred.col = "num_employees" /\ pred.op = "<=" ->
            value = Val(f.maxEmployees)
      [] pred.col = "name"   -> value = <<"%">> \o Val(f.name) \o <<"%">>
      [] pred.col = "title"  -> value = <<"%">> \o Val(f.title) \o <<"%">>
      [] pred.col = "salary" -> value = Val(f.minSalary)

\* A findAll statement numbers its placeholders 1..n for its n parameters,
\* in the order of its predicates, lists the predicates in the claim's
\* order, and binds each placeholder to its own predicate's value.
FindPlaceholders(q, f) ==
    /\ {q.whereQuery[i].arg.ph : i \in Parameterized(q.whereQuery)} =
          1..Len(q.queryValues)
    /\ Cardinality(Parameterized(q.whereQuery)) = Len(q.queryValues)
    /\ \A i, j \in 1..Len(q.whereQuery) :
          i < j => PredicateRank(q.whereQuery[i]) < PredicateRank(q.whereQuery[j])
    /\ \A i, j \in Parameterized(q.whereQuery) :
          i < j => q.whereQuery[i].arg.ph < q.whereQuery[j].arg.ph
    /\ \A i \in Parameterized(q.whereQuery) :
          MeantFor(q.whereQuery[i], f, q.queryValues[q.whereQuery[i].arg.ph])

\* An update statement numbers its assignments' placeholders 1..k in the
\* order of data's keys, binds each to its key's value, and gives the row
\* identifier placeholder k+1, the last parameter.
UpdatePlaceholders(st, id, data) ==
    /\ Len(st.setCols) = Len(data)
    /\ Len(st.params) = Len(data) + 1
    /\ \A i \in 1..Len(data) :
          /\ st.setCols[i].ph = i
          /\ st.params[i] = data[i].val
    /\ st.wherePh = Len(data) + 1
    /\ st.params[st.wherePh] = id
    /\ {st.setCols[i].ph : i \in 1..Len(data)} \cup {st.wherePh} =
          1..Len(st.params)

\* C14: in every statement built by Company.findAll, Job.findAll,
\* Company.update and Job.update the placeholder indices are exactly 1..n
\* for the n parameters, each placeholder is bound to the value of its own
\* predicate or assignment, company predicates come in the order
\* minEmployees, maxEmployees, name and job predicates in the order equity
\* (no parameter), title, minSalary, and an update's row identifier has
\* index len(values)+1, after the assignment values.
C14_Placeholders ==
    /\ (StatementBuilt("Company.findAll") \/ StatementBuilt("Job.findAll")) =>
          FindPlaceholders(Val(call.out), call.args)
    /\ (StatementBuilt("Company.update") \/ StatementBuilt("Job.update")) =>
          UpdatePlaceholders(Val(call.out), call.args.id, call.args.data)

\* C14's case: Company.findAll has built its statement from all three
\* filters, three predicates and three parameters.
C14_Witness ==
    /\ StatementBuilt("Company.findAll")
    /\ call.args.minEmployees = Some(1)
    /\ call.args.maxEmployees = Some(2)
    /\ call.args.name = Some(<<"c", "1">>)
    /\ Len(Val(call.out).whereQuery) = 3
    /\ Val(call.out).queryValues = <<1, 2, <<"%", "c", "1", "%">>>>

=============================================================================
